---- MODULE Spec2Model ----
(***************************************************************************)
(* Guarded-execution pipelines of the flash-loan bots.                     *)
(*                                                                         *)
(*   SpecBot   src/bot.py           FlashLoanBot.run and what it calls     *)
(*   SpecSwap  src/orchestrator.py  safe_execute_swap_pair                 *)
(*   SpecPair  src/FlashLoanBot/orchestrator.py  main and scan_pair        *)
(*   SpecLiq   src/FlashLoanBot/liquidation_monitor.py  scan_borrowers     *)
(*                                                                         *)
(* Units.  TLC integers are 32 bits wide, Python's are unbounded, so the   *)
(* quantities are carried in units that keep every product in range:       *)
(*   - a USDC amount given as a float (BotConfig) counts 10^-7 USDC, one   *)
(*     tenth of a base unit, so that usdc_to_base truncates;               *)
(*   - a base-unit amount (6 decimals) is exact;                           *)
(*   - the gas price of bot.py counts 10^8 wei (a tenth of a gwei).        *)
(***************************************************************************)
EXTENDS Integers, Sequences, FiniteSets, TLC

VARIABLES
    \* ---- src/bot.py: FlashLoanBot ----
    config,            \* BotConfig (the fields the loop reads)
    attempts_today,    \* self.attempts_today
    attempt_day,       \* self.attempt_day (a day number)
    today,             \* the wall clock's date, read by time.strftime
    pc,                \* position of run()
    profit_qs,         \* run(): profit_qs of the current cycle
    profit_sq,         \* run(): profit_sq of the current cycle
    direction,         \* which round trip the if/elif of run() evaluated
    verdict,           \* what should_trade returned and read in the current cycle
    calls,             \* RPC and clock calls made in the current cycle, in order
    receipt_status,    \* how wait_for_transaction_receipt ended in this cycle
    quotes_failed,     \* the directions ("QS", "SQ") one of whose router calls raised in this cycle
    nonce,             \* the account's transaction count on the chain
    sent,              \* transactions accepted by send_raw_transaction so far
    sent_today,        \* of these, the ones broadcast on the current date
    gas_spent,         \* gas actually paid for mined transactions (chain side)
    resets,            \* how often attempts_today was reset to 0
    cumulative_gas_spend_usd, \* the tracker's cumulative gas spend of the design;
                       \* FlashLoanBot has no such field and no statement writes it
    \* ---- src/orchestrator.py: safe_execute_swap_pair ----
    env_DRY_RUN,       \* the DRY_RUN environment variable ("unset" when absent)
    sw_pc,             \* position inside safe_execute_swap_pair ("idle": not called)
    sw_args,           \* from_token_sym, to_token_sym, human_amount, dry_run
    sw_local,          \* the locals of the invocation
    sw_calls,          \* HTTP, RPC and signing calls of the invocation, in order
    sw_result,         \* what the invocation returned ("-": still running)
    sw_nonce,          \* the transaction count of MY_ADDRESS on the chain
    \* ---- src/FlashLoanBot/orchestrator.py: main and scan_pair ----
    pr_env,            \* DRY_RUN, and whether CONTRACT_ADDRESS and contract are set
    pr_pc,             \* position of main() ("crashed": an exception ended the process)
    pr_iter,           \* iterations of the while loop completed so far
    pr_idx,            \* index in PAIRS of the pair the for loop scans next
    pr_sent_iter,      \* transactions broadcast in the current iteration
    pr_last,           \* what the latest scan_pair call did
    \* ---- src/FlashLoanBot/liquidation_monitor.py: scan_borrowers ----
    lq_env,            \* DRY_RUN, and whether LIQUIDATION_CONTRACT and account are set
    lq_pc,             \* position of scan_borrowers()
    scan_count,        \* scan_count
    checked_borrowers, \* checked_borrowers
    borrowers_to_check,\* the tuples the for loop has still to visit in this cycle
    lq_scan_failed,    \* the outer except branch was taken in this cycle
    lq_sent_iter,      \* transactions broadcast in the current cycle
    lq_last            \* what the latest visit of a borrower did

botVars == <<config, attempts_today, attempt_day, today, pc, profit_qs, profit_sq,
             direction, verdict, calls, receipt_status, quotes_failed, nonce, sent, sent_today,
             gas_spent, resets,
             cumulative_gas_spend_usd>>

swapVars == <<env_DRY_RUN, sw_pc, sw_args, sw_local, sw_calls, sw_result, sw_nonce>>

pairVars == <<pr_env, pr_pc, pr_iter, pr_idx, pr_sent_iter, pr_last>>

liqVars == <<lq_env, lq_pc, scan_count, checked_borrowers, borrowers_to_check,
             lq_scan_failed, lq_sent_iter, lq_last>>

vars == <<botVars, swapVars, pairVars, liqVars>>

----------------------------------------------------------------------------
\* Bounds of the model.
MaxDay == 1             \* the clock runs over days 0..MaxDay
MaxDailyAttempts == 2   \* max_daily_attempts is drawn from 0..MaxDailyAttempts
GasCosts == {1}         \* what a mined transaction can cost, in units of gas money

MaxSwapSends == 2       \* safe_execute_swap_pair is called again until so many sends

\* The total spend ceiling of the configuration (budgetUsd), in the same units.
BudgetUsd == 1

\* Program constants.
SubUnits == 10          \* 10^-7 USDC per base unit: int(amount_usdc * 10**6) truncates
GweiUnits == 10         \* gas price units (10^8 wei) per gwei: from_wei(.., "gwei")

\* Configurations the process is started with (load_config).
LoanAmountUsdc == 100000000       \* LOAN_AMOUNT_USDC = 10.0
MinProfits == {0, 12000005}       \* MIN_PROFIT_USDC: 0 and 1.2000005 (default 1.2)
MaxGasGwei == 80                  \* MAX_GAS_GWEI = 80.0

Configs ==
    [dry_run : BOOLEAN,
     loan_amount_usdc : {LoanAmountUsdc},
     min_profit_usdc : MinProfits,
     max_gas_gwei : {MaxGasGwei},
     max_daily_attempts : 0..MaxDailyAttempts]

\* @staticmethod usdc_to_base: int() truncates toward zero.
usdc_to_base(amount_usdc) ==
    IF amount_usdc >= 0 THEN amount_usdc \div SubUnits
                        ELSE -((-amount_usdc) \div SubUnits)

\* What the environment can answer.
RouterFail == [ok |-> FALSE, amounts |-> <<>>]
RouterReplies(amount_in, outs) ==
    \* a router reverts on a zero input amount
    IF amount_in = 0 THEN {RouterFail}
    ELSE {RouterFail} \cup {[ok |-> TRUE, amounts |-> <<amount_in, o>>] : o \in outs}

WethOuts == {3000000}   \* WETH bought for the loan, in 10^9 wei
UsdcOuts == {10000000, 11199999, 11200000, 12000000}  \* USDC base units got back

GasReplies == {[ok |-> FALSE, wei |-> 0]}
              \cup {[ok |-> TRUE, wei |-> g] : g \in {10, 800, 801, 900}}

----------------------------------------------------------------------------
\* A get_amount_out that answers a failed call with an amount of its own.
get_amount_out_optimistic(reply) ==
    IF reply.ok THEN reply.amounts[Len(reply.amounts)] ELSE 12000000

\* get_amount_out: the last amount of the router's reply, 0 when the call raises.
get_amount_out(reply) ==
    IF reply.ok THEN reply.amounts[Len(reply.amounts)] ELSE 0

\* estimate_roundtrip_profit, given the replies to its four router calls.
estimate_roundtrip_profit(amount_in_base, r_weth_quick, r_usdc_sushi, r_weth_sushi, r_usdc_quick) ==
    LET amount_weth_quick == get_amount_out(r_weth_quick)
        amount_usdc_sushi == get_amount_out(r_usdc_sushi)
        amount_weth_sushi == get_amount_out(r_weth_sushi)
        amount_usdc_quick == get_amount_out(r_usdc_quick)
    IN <<amount_usdc_sushi - amount_in_base, amount_usdc_quick - amount_in_base>>

\* _reset_daily_counter_if_needed, as the tracker it leaves behind.
ResetNoDayUpdate(tracker, current_day) ==
    IF current_day # tracker.attempt_day
    THEN [attempt_day |-> tracker.attempt_day, attempts_today |-> 0,
          resets |-> tracker.resets + 1]
    ELSE tracker

\* A rollover that moves attempt_day and keeps the count.
ResetKeepsCount(tracker, current_day) ==
    IF current_day # tracker.attempt_day
    THEN [attempt_day |-> current_day, attempts_today |-> tracker.attempts_today,
          resets |-> tracker.resets + 1]
    ELSE tracker

reset_daily_counter_if_needed(tracker, current_day) ==
    IF current_day # tracker.attempt_day
    THEN [attempt_day |-> current_day, attempts_today |-> 0,
          resets |-> tracker.resets + 1]
    ELSE tracker

\* should_trade, first gate.
ProfitFloorOff(expected_profit_base, cfg) == TRUE

PassesProfitFloor(expected_profit_base, cfg) ==
    ~(expected_profit_base < usdc_to_base(cfg.min_profit_usdc))

\* should_trade, second gate: gas_price_gwei > max_gas_gwei rejects.
GasCeilingWholeGwei(gas_price, cfg) ==
    ~((gas_price \div GweiUnits) > cfg.max_gas_gwei)

PassesGasCeiling(gas_price, cfg) ==
    ~(gas_price > cfg.max_gas_gwei * GweiUnits)

\* should_trade, third gate.
QuotaOffByOne(attempts, cfg) == ~(attempts > cfg.max_daily_attempts)

QuotaGateOff(attempts, cfg) == TRUE

PassesQuota(attempts, cfg) == ~(attempts >= cfg.max_daily_attempts)

\* What one call of should_trade returned, read and left behind.
\*   gas_seen: the gas price it read (-1: it did not read it)
\*   day_seen: the date it read (-1: it did not read the clock)
\*   attempts_checked: attempts_today as the quota gate compared it (-1: not reached)
Verdict(ret, reason, gas_seen, day_seen, cs, tracker) ==
    [ret |-> ret, reason |-> reason, gas_seen |-> gas_seen, day_seen |-> day_seen,
     attempts_checked |-> IF day_seen = -1 THEN -1 ELSE tracker.attempts_today,
     calls |-> cs, tracker |-> tracker]

\* A should_trade that reads the gas price before it looks at the profit.
should_trade_gas_first(expected_profit_base, gas, current_day, tracker, cfg) ==
    IF ~gas.ok
    THEN Verdict("raise", "RPC_ERROR", -1, -1, <<"gas_price">>, tracker)
    ELSE IF ~PassesGasCeiling(gas.wei, cfg)
    THEN Verdict("False", "GAS_TOO_HIGH", gas.wei, -1, <<"gas_price">>, tracker)
    ELSE IF ~PassesProfitFloor(expected_profit_base, cfg)
    THEN Verdict("False", "PROFIT_TOO_LOW", gas.wei, -1, <<"gas_price">>, tracker)
    ELSE LET t == reset_daily_counter_if_needed(tracker, current_day) IN
         IF ~PassesQuota(t.attempts_today, cfg)
         THEN Verdict("False", "QUOTA_EXCEEDED", gas.wei, current_day,
                      <<"gas_price", "strftime">>, t)
         ELSE Verdict("True", "NONE", gas.wei, current_day,
                      <<"gas_price", "strftime">>, t)

\* A should_trade that looks at the date before any gate.
should_trade_reset_first(expected_profit_base, gas, current_day, tracker, cfg) ==
    LET t == reset_daily_counter_if_needed(tracker, current_day) IN
    IF ~PassesProfitFloor(expected_profit_base, cfg)
    THEN Verdict("False", "PROFIT_TOO_LOW", -1, -1, <<"strftime">>, t)
    ELSE IF ~gas.ok
    THEN Verdict("raise", "RPC_ERROR", -1, -1, <<"strftime", "gas_price">>, t)
    ELSE IF ~PassesGasCeiling(gas.wei, cfg)
    THEN Verdict("False", "GAS_TOO_HIGH", gas.wei, -1, <<"strftime", "gas_price">>, t)
    ELSE IF ~PassesQuota(t.attempts_today, cfg)
    THEN Verdict("False", "QUOTA_EXCEEDED", gas.wei, current_day,
                 <<"strftime", "gas_price">>, t)
    ELSE Verdict("True", "NONE", gas.wei, current_day, <<"strftime", "gas_price">>, t)

\* should_trade: the three gates in the order of the code.
should_trade(expected_profit_base, gas, current_day, tracker, cfg) ==
    IF ~PassesProfitFloor(expected_profit_base, cfg)
    THEN Verdict("False", "PROFIT_TOO_LOW", -1, -1, <<>>, tracker)
    ELSE IF ~gas.ok
    THEN Verdict("raise", "RPC_ERROR", -1, -1, <<"gas_price">>, tracker)
    ELSE IF ~PassesGasCeiling(gas.wei, cfg)
    THEN Verdict("False", "GAS_TOO_HIGH", gas.wei, -1, <<"gas_price">>, tracker)
    ELSE LET t == reset_daily_counter_if_needed(tracker, current_day) IN
         IF ~PassesQuota(t.attempts_today, cfg)
         THEN Verdict("False", "QUOTA_EXCEEDED", gas.wei, current_day,
                      <<"gas_price", "strftime">>, t)
         ELSE Verdict("True", "NONE", gas.wei, current_day,
                      <<"gas_price", "strftime">>, t)

\* No call of should_trade yet in this cycle.  The variable verdict keeps, beside
\* the fields above, what the environment held when should_trade was called:
\* network_gas (the answer eth.gas_price had ready) and day_at_call (the date).
NoVerdict ==
    [ret |-> "-", reason |-> "-", gas_seen |-> -1, day_seen |-> -1,
     attempts_checked |-> -1, network_gas |-> [ok |-> FALSE, wei |-> 0],
     day_at_call |-> -1]

Tracker == [attempt_day |-> attempt_day, attempts_today |-> attempts_today,
            resets |-> resets]

----------------------------------------------------------------------------
\* FlashLoanBot.__init__ and the first lines of run().
BotInit ==
    /\ config \in Configs
    /\ attempts_today = 0
    /\ today = 0
    /\ attempt_day = today
    /\ pc = "scan"
    /\ profit_qs = 0
    /\ profit_sq = 0
    /\ direction = "-"
    /\ verdict = NoVerdict
    /\ calls = <<>>
    /\ receipt_status = "-"
    /\ quotes_failed = {}
    /\ nonce = 0
    /\ sent = 0
    /\ sent_today = 0
    /\ gas_spent = 0
    /\ resets = 0
    /\ cumulative_gas_spend_usd = 0

\* The date changes while the process runs.
Tick ==
    /\ today < MaxDay
    /\ today' = today + 1
    /\ sent_today' = 0
    /\ UNCHANGED <<swapVars, pairVars, liqVars, quotes_failed, receipt_status, config, attempts_today, attempt_day, pc, profit_qs, profit_sq,
                   direction, verdict, calls, nonce, sent, gas_spent,
                   resets, cumulative_gas_spend_usd>>

\* The locals of a cycle are dead once the loop is back at its top.
CycleOver ==
    /\ profit_qs' = 0
    /\ profit_sq' = 0
    /\ direction' = "-"
    /\ verdict' = NoVerdict
    /\ calls' = <<>>
    /\ receipt_status' = "-"
    /\ quotes_failed' = {}

\* run(): a cycle starts with estimate_roundtrip_profit.
BotScan ==
    /\ pc = "scan"
    /\ LET amount_in_base == usdc_to_base(config.loan_amount_usdc) IN
       \E r_weth_quick \in RouterReplies(amount_in_base, WethOuts),
          r_weth_sushi \in RouterReplies(amount_in_base, WethOuts) :
       \E r_usdc_sushi \in RouterReplies(get_amount_out(r_weth_quick), UsdcOuts),
          r_usdc_quick \in RouterReplies(get_amount_out(r_weth_sushi), UsdcOuts) :
          LET p == estimate_roundtrip_profit(amount_in_base, r_weth_quick, r_usdc_sushi,
                                             r_weth_sushi, r_usdc_quick) IN
          /\ profit_qs' = p[1]
          /\ profit_sq' = p[2]
          /\ quotes_failed' =
                (IF r_weth_quick.ok /\ r_usdc_sushi.ok THEN {} ELSE {"QS"})
                    \cup (IF r_weth_sushi.ok /\ r_usdc_quick.ok THEN {} ELSE {"SQ"})
    /\ pc' = "select"
    /\ UNCHANGED <<swapVars, pairVars, liqVars, sent_today, receipt_status, config, attempts_today, attempt_day, today, direction, verdict, calls,
                   nonce, sent, gas_spent, resets, cumulative_gas_spend_usd>>

\* run(): the if/elif that picks a direction and asks should_trade about it.
BotSelect ==
    /\ pc = "select"
    /\ \E gas \in GasReplies :
       LET dir == IF profit_qs >= profit_sq THEN "QS" ELSE "SQ"
           p == IF dir = "QS" THEN profit_qs ELSE profit_sq
           v == should_trade(p, gas, today, Tracker, config)
       IN /\ direction' = dir
          /\ verdict' = [ret |-> v.ret, reason |-> v.reason, gas_seen |-> v.gas_seen,
                          day_seen |-> v.day_seen,
                          attempts_checked |-> v.attempts_checked,
                          network_gas |-> gas, day_at_call |-> today]
          /\ calls' = calls \o v.calls
          /\ attempts_today' = v.tracker.attempts_today
          /\ attempt_day' = v.tracker.attempt_day
          /\ resets' = v.tracker.resets
          /\ pc' = CASE v.ret = "True" -> "execute"
                     [] v.ret = "False" -> "interval"
                     [] OTHER -> "except"
    /\ UNCHANGED <<swapVars, pairVars, liqVars, quotes_failed, sent_today, receipt_status, config, today, profit_qs, profit_sq, nonce, sent, gas_spent,
                   cumulative_gas_spend_usd>>

\* execute_trade up to the signed transaction.
PrepareCalls(fail) ==
    CASE fail = "nonce" -> <<"get_transaction_count">>
      [] fail = "gas" -> <<"get_transaction_count", "gas_price">>
      [] fail = "build" -> <<"get_transaction_count", "gas_price", "build_transaction">>
      [] OTHER -> <<"get_transaction_count", "gas_price", "build_transaction",
                    "sign_transaction">>

BotExecute ==
    /\ pc = "execute"
    /\ IF config.dry_run
       THEN /\ pc' = "cooldown"
            /\ UNCHANGED calls
       ELSE \E fail \in {"none", "nonce", "gas", "build", "sign"} :
            /\ calls' = calls \o PrepareCalls(fail)
            /\ pc' = IF fail = "none" THEN "send" ELSE "except"
    /\ UNCHANGED <<swapVars, pairVars, liqVars, quotes_failed, sent_today, receipt_status, config, attempts_today, attempt_day, today, profit_qs, profit_sq,
                   direction, verdict, nonce, sent, gas_spent, resets,
                   cumulative_gas_spend_usd>>

\* An execute_trade that counts the attempt before it broadcasts.
BotSendCountsFirst ==
    /\ pc = "send"
    /\ calls' = Append(calls, "send_raw_transaction")
    /\ attempts_today' = attempts_today + 1
    /\ \E accepted \in BOOLEAN :
       IF accepted
       THEN /\ nonce' = nonce + 1
            /\ sent' = sent + 1
            /\ sent_today' = sent_today + 1
            /\ pc' = "receipt"
       ELSE /\ pc' = "except"
            /\ UNCHANGED <<nonce, sent, sent_today>>
    /\ UNCHANGED <<swapVars, pairVars, liqVars, quotes_failed, receipt_status, config, attempt_day, today, profit_qs, profit_sq, direction,
                   verdict, gas_spent, resets, cumulative_gas_spend_usd>>

\* execute_trade: send_raw_transaction, then attempts_today += 1.
BotSend ==
    /\ pc = "send"
    /\ calls' = Append(calls, "send_raw_transaction")
    /\ \E accepted \in BOOLEAN :
       IF accepted
       THEN /\ attempts_today' = attempts_today + 1
            /\ nonce' = nonce + 1
            /\ sent' = sent + 1
            /\ sent_today' = sent_today + 1
            /\ pc' = "receipt"
       ELSE /\ pc' = "except"
            /\ UNCHANGED <<attempts_today, nonce, sent, sent_today>>
    /\ UNCHANGED <<swapVars, pairVars, liqVars, quotes_failed, receipt_status, config, attempt_day, today, profit_qs, profit_sq, direction,
                   verdict, gas_spent, resets, cumulative_gas_spend_usd>>

\* execute_trade: wait_for_transaction_receipt and the two prints.
BotReceipt ==
    /\ pc = "receipt"
    /\ calls' = Append(calls, "wait_for_transaction_receipt")
    /\ \E outcome \in {"success", "reverted", "raise"} :
       /\ receipt_status' = outcome
       /\ IF outcome = "raise"
          THEN /\ pc' = "except"
               /\ UNCHANGED gas_spent
          ELSE /\ pc' = "cooldown"
               /\ \E cost \in GasCosts : gas_spent' = gas_spent + cost
    /\ UNCHANGED <<swapVars, pairVars, liqVars, quotes_failed, sent_today, config, attempts_today, attempt_day, today, profit_qs, profit_sq,
                   direction, verdict, nonce, sent, resets,
                   cumulative_gas_spend_usd>>

\* run(): time.sleep(cooldown_seconds) after execute_trade returned.
BotCooldown ==
    /\ pc = "cooldown"
    /\ pc' = "interval"
    /\ calls' = Append(calls, "sleep(cooldown_seconds)")
    /\ UNCHANGED <<swapVars, pairVars, liqVars, quotes_failed, sent_today, receipt_status, config, attempts_today, attempt_day, today, profit_qs, profit_sq,
                   direction, verdict, nonce, sent, gas_spent,
                   resets, cumulative_gas_spend_usd>>

\* run(): time.sleep(scan_interval_seconds) at the end of the try block.
BotInterval ==
    /\ pc = "interval"
    /\ pc' = "scan"
    /\ CycleOver
    /\ UNCHANGED <<swapVars, pairVars, liqVars, sent_today, config, attempts_today, attempt_day, today, nonce, sent, gas_spent,
                   resets, cumulative_gas_spend_usd>>

\* run(): except Exception: print, sleep(scan_interval_seconds).
BotExcept ==
    /\ pc = "except"
    /\ pc' = "scan"
    /\ CycleOver
    /\ UNCHANGED <<swapVars, pairVars, liqVars, sent_today, config, attempts_today, attempt_day, today, nonce, sent, gas_spent,
                   resets, cumulative_gas_spend_usd>>

----------------------------------------------------------------------------
\* src/orchestrator.py.  Units: a raw token amount counts millionths of a token
\* (exact for the 6-decimals tokens; an 18-decimals amount is held in units of
\* 10^12 raw), a USD value counts millionths of a dollar, the gas price counts gwei
\* and the MATIC price counts tenths of a dollar.  Python computes these in Decimal,
\* exactly; the amounts enumerated below keep every division exact as well.

MIN_PROFIT_USD == 10000000    \* Decimal("10"), in millionths of a dollar
RawPerToken == 1000000        \* model raw units per token, for every TOKEN_DECIMALS key
GasBufferPct == 120           \* GAS_BUFFER_MULTIPLIER = 1.20
TolerancePct == 1             \* Decimal("0.01") of the freshness re-check
GasUsdDivisor == 10000        \* gas * gwei * dimes = 10^-10 USD; 10^4 of them per 10^-6 USD

TOKEN_DECIMALS == {"USDC", "USDT", "WETH", "WMATIC"}   \* the keys of the table
Stable == {"USDC", "USDT"}

\* What the caller passes and what the environment can answer.
SwapPairs == {<<"USDC", "USDT">>, <<"USDC", "WMATIC">>, <<"WMATIC", "USDC">>,
              <<"DAI", "USDC">>}
HumanAmount == 10
QuoteOuts == {0, 20008399, 20008400, 30000000}   \* toTokenAmount of the first quote
RequoteSteps == {0, 200084, 200085}              \* how far the second quote moved
GasEstimates == {200000}                         \* what eth_estimateGas answers
GasPricesGwei == {50}                            \* w3.eth.gas_price
MaticUsdDimes == 7                               \* get_matic_price_usd: Decimal("0.7")

HttpFail == [ok |-> FALSE, value |-> 0]
HttpReplies(values) == {HttpFail} \cup {[ok |-> TRUE, value |-> v] : v \in values}

NoArgs == [from_token_sym |-> "-", to_token_sym |-> "-", human_amount |-> 0,
           dry_run |-> TRUE]

NoLocals ==
    [amount_raw |-> 0, expected_out_raw |-> 0, tx_nonce |-> -1, gas_limit |-> -1,
     sim_ok |-> FALSE, sim_failure |-> "-", net_minus_gas |-> 0, fee_mode |-> "-",
     requote |-> HttpFail, guard_passed |-> FALSE]

\* to_raw / from_raw: ValueError for a symbol TOKEN_DECIMALS does not hold.
to_raw(amount, token_symbol) ==
    IF token_symbol \in TOKEN_DECIMALS
    THEN [ok |-> TRUE, value |-> amount * RawPerToken]
    ELSE [ok |-> FALSE, value |-> 0]

\* from_raw: Decimal(amount_int) / 10**d tokens, exact, held as the count of
\* millionths of a token, which is what a model raw unit is.
from_raw(amount_int, token_symbol) ==
    IF token_symbol \in TOKEN_DECIMALS
    THEN [ok |-> TRUE, value |-> amount_int]
    ELSE [ok |-> FALSE, value |-> 0]

\* An estimate_and_simulate that reports success whatever eth_call did.
estimate_and_simulate_blind(gas_reply, call_ok) ==
    IF ~gas_reply.ok
    THEN [gas_limit |-> -1, sim_ok |-> FALSE, calls |-> <<"estimate_gas">>]
    ELSE [gas_limit |-> (gas_reply.value * GasBufferPct) \div 100, sim_ok |-> TRUE,
          calls |-> <<"estimate_gas", "eth_call">>]

\* estimate_and_simulate: (gas_limit, sim_ok), gas_limit -1 standing for None.
estimate_and_simulate(gas_reply, call_ok) ==
    IF ~gas_reply.ok
    THEN [gas_limit |-> -1, sim_ok |-> FALSE, calls |-> <<"estimate_gas">>]
    ELSE [gas_limit |-> (gas_reply.value * GasBufferPct) \div 100, sim_ok |-> call_ok,
          calls |-> <<"estimate_gas", "eth_call">>]

\* gas_cost_usd, in millionths of a dollar.
gas_cost_usd(gas_limit, gas_price_gwei, matic_price_dimes) ==
    (gas_limit * gas_price_gwei * matic_price_dimes) \div GasUsdDivisor

\* compute_net_profit_usd: RuntimeError (ok = FALSE) when a side has no USD value.
compute_net_profit_usd(input_amount_raw, expected_output_raw, input_token_symbol, output_token_symbol, matic_price_dimes, loan_fee_usd) ==
    LET in_stable == input_token_symbol \in Stable
        input_usd ==
            IF in_stable THEN from_raw(input_amount_raw, input_token_symbol)
            ELSE IF input_token_symbol = "WMATIC"
            THEN [ok |-> TRUE,
                  value |-> (from_raw(input_amount_raw, "WMATIC").value * matic_price_dimes) \div 10]
            ELSE [ok |-> FALSE, value |-> 0]
        output_usd ==
            IF in_stable /\ output_token_symbol \in Stable
            THEN from_raw(expected_output_raw, output_token_symbol)
            ELSE IF output_token_symbol = "WMATIC"
            THEN [ok |-> TRUE,
                  value |-> (from_raw(expected_output_raw, "WMATIC").value * matic_price_dimes) \div 10]
            ELSE [ok |-> FALSE, value |-> 0]
    IN IF input_usd.ok /\ output_usd.ok
       THEN [ok |-> TRUE, value |-> output_usd.value - input_usd.value - loan_fee_usd]
       ELSE [ok |-> FALSE, value |-> 0]

\* Step 8, the strict profit guard: net_minus_gas < MIN_PROFIT_USD skips.
PassesProfitGuard(net_minus_gas) == ~(net_minus_gas < MIN_PROFIT_USD)

\* A freshness check that only looks at a falling quote.
QuoteFallOnly(expected_out_raw_now, expected_out_raw) ==
    IF expected_out_raw = 0 THEN "raise"
    ELSE IF 100 * (expected_out_raw_now - expected_out_raw) < -(TolerancePct * expected_out_raw)
    THEN "abort"
    ELSE "fresh"

\* Step 10: delta_pct = (now - then) / then; abort below -0.01 or above 0.01; the
\* division raises for then = 0.
QuoteMoved(expected_out_raw_now, expected_out_raw) ==
    IF expected_out_raw = 0 THEN "raise"
    ELSE IF \/ 100 * (expected_out_raw_now - expected_out_raw) < -(TolerancePct * expected_out_raw)
            \/ 100 * (expected_out_raw_now - expected_out_raw) > TolerancePct * expected_out_raw
    THEN "abort"
    ELSE "fresh"

Return(value) ==
    /\ sw_result' = value
    /\ sw_pc' = "returned"

\* The caller invokes safe_execute_swap_pair: steps 1 to 4 and the tx dictionary.
\* A failing quote or swap request returns False; to_raw and the reads that build
\* the tx dictionary (get_transaction_count) are outside any try and raise.
SwapCall ==
    /\ sw_pc = "idle"
    /\ \E pair \in SwapPairs, dry \in BOOLEAN, q \in HttpReplies(QuoteOuts),
          swap_ok \in BOOLEAN, nonce_ok \in BOOLEAN :
       LET amount == to_raw(HumanAmount, pair[1]) IN
       /\ sw_args' = [from_token_sym |-> pair[1], to_token_sym |-> pair[2],
                      human_amount |-> HumanAmount, dry_run |-> dry]
       /\ IF ~amount.ok
          THEN /\ Return("raise")
               /\ sw_calls' = <<>>
               /\ sw_local' = NoLocals
          ELSE IF ~q.ok
          THEN /\ Return("False")
               /\ sw_calls' = <<"quote">>
               /\ sw_local' = [NoLocals EXCEPT !.amount_raw = amount.value]
          ELSE IF ~swap_ok
          THEN /\ Return("False")
               /\ sw_calls' = <<"quote", "swap">>
               /\ sw_local' = [NoLocals EXCEPT !.amount_raw = amount.value,
                                               !.expected_out_raw = q.value]
          ELSE IF ~nonce_ok
          THEN /\ Return("raise")
               /\ sw_calls' = <<"quote", "swap", "get_transaction_count">>
               /\ sw_local' = [NoLocals EXCEPT !.amount_raw = amount.value,
                                               !.expected_out_raw = q.value]
          ELSE /\ sw_pc' = "built"
               /\ sw_result' = "-"
               /\ sw_calls' = <<"quote", "swap", "get_transaction_count">>
               /\ sw_local' = [NoLocals EXCEPT !.amount_raw = amount.value,
                                               !.expected_out_raw = q.value,
                                               !.tx_nonce = sw_nonce]
    /\ UNCHANGED <<botVars, pairVars, liqVars, env_DRY_RUN, sw_nonce>>

\* Step 5: estimate gas and simulate.
SwapSimulate ==
    /\ sw_pc = "built"
    /\ \E gas_reply \in HttpReplies(GasEstimates), call_ok \in BOOLEAN :
       LET r == estimate_and_simulate(gas_reply, call_ok) IN
       /\ sw_calls' = sw_calls \o r.calls
       /\ sw_local' = [sw_local EXCEPT !.gas_limit = r.gas_limit, !.sim_ok = r.sim_ok,
                          !.sim_failure = IF ~gas_reply.ok THEN "estimate_gas"
                                          ELSE IF ~call_ok THEN "eth_call" ELSE "-"]
       /\ IF r.sim_ok
          THEN sw_pc' = "simulated" /\ sw_result' = "-"
          ELSE Return("False")
    /\ UNCHANGED <<botVars, pairVars, liqVars, env_DRY_RUN, sw_args, sw_nonce>>

\* Steps 6 to 8: gas cost, net profit and the profit guard.
SwapProfit ==
    /\ sw_pc = "simulated"
    /\ \E price_ok \in BOOLEAN, gas_price \in GasPricesGwei :
       LET gas_usd == gas_cost_usd(sw_local.gas_limit, gas_price, MaticUsdDimes)
           net == compute_net_profit_usd(sw_local.amount_raw, sw_local.expected_out_raw,
                                         sw_args.from_token_sym, sw_args.to_token_sym,
                                         MaticUsdDimes, 0)
       IN
       IF ~price_ok
       THEN /\ Return("raise")
            /\ sw_calls' = Append(sw_calls, "gas_price")
            /\ UNCHANGED sw_local
       ELSE /\ sw_calls' = Append(sw_calls, "gas_price")
            /\ IF ~net.ok
               THEN Return("False") /\ UNCHANGED sw_local
               ELSE /\ sw_local' = [sw_local EXCEPT
                                       !.net_minus_gas = net.value - gas_usd,
                                       !.guard_passed = PassesProfitGuard(net.value - gas_usd)]
                    /\ IF PassesProfitGuard(net.value - gas_usd)
                       THEN sw_pc' = "guarded" /\ sw_result' = "-"
                       ELSE Return("False")
    /\ UNCHANGED <<botVars, pairVars, liqVars, env_DRY_RUN, sw_args, sw_nonce>>

\* Steps 9 and 10: the fee fields and the freshness re-check.
SwapRequote ==
    /\ sw_pc = "guarded"
    /\ \E fee_ok \in BOOLEAN, step \in RequoteSteps, up \in BOOLEAN, q2_ok \in BOOLEAN :
       LET now == IF up THEN sw_local.expected_out_raw + step
                        ELSE sw_local.expected_out_raw - step
           q2 == IF q2_ok THEN [ok |-> TRUE, value |-> now] ELSE HttpFail
           moved == IF q2.ok THEN QuoteMoved(q2.value, sw_local.expected_out_raw)
                             ELSE "raise"
       IN
       /\ sw_calls' = sw_calls \o <<"max_priority_fee", "quote">>
       /\ sw_local' = [sw_local EXCEPT !.fee_mode = IF fee_ok THEN "eip1559" ELSE "legacy",
                                       !.requote = q2]
       /\ IF moved = "abort"
          THEN Return("False")
          ELSE sw_pc' = "fresh" /\ sw_result' = "-"
    /\ UNCHANGED <<botVars, pairVars, liqVars, env_DRY_RUN, sw_args, sw_nonce>>

\* A switch that looks at the dry_run argument alone.
StaysDryArgumentOnly(dry_run, env) == dry_run

\* if dry_run or os.getenv("DRY_RUN", "1") == "1"
StaysDry(dry_run, env) == dry_run \/ (IF env = "unset" THEN "1" ELSE env) = "1"

\* Steps 11 and 12: sign, then return the signed bytes or broadcast.
SwapSignSend ==
    /\ sw_pc = "fresh"
    /\ IF StaysDry(sw_args.dry_run, env_DRY_RUN)
       THEN /\ sw_calls' = Append(sw_calls, "sign_transaction")
            /\ Return("signed_hex")
            /\ UNCHANGED sw_nonce
       ELSE \E accepted \in BOOLEAN :
            /\ sw_calls' = sw_calls \o <<"sign_transaction", "send_raw_transaction">>
            /\ IF accepted
               THEN Return("True") /\ sw_nonce' = sw_nonce + 1
               ELSE Return("False") /\ UNCHANGED sw_nonce
    /\ UNCHANGED <<botVars, pairVars, liqVars, env_DRY_RUN, sw_args, sw_local>>

\* The caller is free to call again.
SwapReturn ==
    /\ sw_pc = "returned"
    /\ sw_nonce < MaxSwapSends
    /\ sw_pc' = "idle"
    /\ sw_args' = NoArgs
    /\ sw_local' = NoLocals
    /\ sw_calls' = <<>>
    /\ sw_result' = "-"
    /\ UNCHANGED <<botVars, pairVars, liqVars, env_DRY_RUN, sw_nonce>>

SwapInit ==
    /\ env_DRY_RUN \in {"unset", "1", "0", "true"}
    /\ sw_pc = "idle"
    /\ sw_args = NoArgs
    /\ sw_local = NoLocals
    /\ sw_calls = <<>>
    /\ sw_result = "-"
    /\ sw_nonce = 0

----------------------------------------------------------------------------
\* src/FlashLoanBot/orchestrator.py.  Units: a token amount counts millionths of
\* a token, a token price counts half dollars, a USD value counts half millionths
\* of a dollar and the gas price counts gwei; with these every product and
\* quotient of scan_pair is an exact integer.

MaxPairIters == 2       \* main() starts so many iterations of its while loop

PairRawPerTenth == 100000     \* model raw units in a tenth of a token: 10**decimals_a
PairMinProfitUsd == 4000000   \* MIN_PROFIT_USD = 2.0, in half millionths of a dollar
PairGasLimit == 600           \* gas_limit = 600000: half micro-dollars per gwei and half dollar
FlashLoanFeeE4 == 9           \* int(loan_amount_wei * 0.0009)

\* PAIRS, the loan amount in tenths of a token.
PAIRS == << <<"USDC", "USDT", 5000>>, <<"USDC", "DAI", 5000>>,
            <<"WMATIC", "USDC", 1000>>, <<"WETH", "USDC", 1>> >>

\* get_token_price of orchestrator.py, without the network: 1.0 for the stable
\* coins, the last-resort values 0.50 and 3000.0 otherwise.
get_token_price(symbol) ==
    CASE symbol \in {"USDC", "USDT", "DAI"} -> 2
      [] symbol = "WMATIC" -> 1
      [] symbol = "WETH" -> 6000
      [] OTHER -> 0

\* What the 1inch API and the node can answer.
\*   ok: get_1inch_swap_data returned the JSON body (None otherwise)
\*   dst: the dstAmount field (-1: not a decimal number, int() raises)
\*   tx_ok: the body holds tx.to and tx.data
SwapDataNone == [ok |-> FALSE, dst |-> 0, tx_ok |-> FALSE]
SwapDataReplies(dsts) ==
    {SwapDataNone} \cup {[ok |-> TRUE, dst |-> d, tx_ok |-> t] : d \in dsts, t \in BOOLEAN}

DstAmountsB == {-1, 0, 7}
\* dstAmount of the way back, as its distance from the amount owed.
DstAmountOffsets(token_a_sym) ==
    CASE token_a_sym = "USDC" -> {0, 2014999, 2015000}
      [] token_a_sym = "WMATIC" -> {0, 4030000}
      [] OTHER -> {0, 672}
PairGasPrices == {[ok |-> FALSE, gwei |-> 0], [ok |-> TRUE, gwei |-> 50]}
TryFailures == {"none", "build_transaction", "eth_call", "sign_transaction",
                "send_raw_transaction"}

flash_loan_fee(loan_amount_wei) ==
    (loan_amount_wei \div 10000) * FlashLoanFeeE4
        + ((loan_amount_wei % 10000) * FlashLoanFeeE4) \div 10000

PairResult(outcome, final_profit_usd, cs) ==
    [outcome |-> outcome, final_profit_usd |-> final_profit_usd, calls |-> cs]

\* The try block of scan_pair: every exception in it is caught and logged.
TryCalls(fail, dry) ==
    CASE fail = "build_transaction" -> <<"build_transaction">>
      [] fail = "eth_call" -> <<"build_transaction", "eth_call">>
      [] dry -> <<"build_transaction", "eth_call">>
      [] fail = "sign_transaction" -> <<"build_transaction", "eth_call", "sign_transaction">>
      [] OTHER -> <<"build_transaction", "eth_call", "sign_transaction",
                    "send_raw_transaction">>

\* scan_pair: final_profit_usd < MIN_PROFIT_USD returns.
PairSkips(final_profit_usd) == final_profit_usd < PairMinProfitUsd

\* scan_pair, given the answers of the API and the node.  outcome "raise" is an
\* exception that leaves scan_pair: int() of a malformed dstAmount, a failing
\* w3.eth.gas_price, a swap body without tx.
scan_pair(token_a_sym, token_b_sym, loan_amount_units, swap_a_b, swap_b_a, gas_price, fail, DRY_RUN) ==
    LET loan_amount_wei == loan_amount_units * PairRawPerTenth
        amount_owed == loan_amount_wei + flash_loan_fee(loan_amount_wei)
        net_profit_wei == swap_b_a.dst - amount_owed
        net_profit_usd == net_profit_wei * get_token_price(token_a_sym)
        gas_usd == PairGasLimit * gas_price.gwei * get_token_price("WMATIC")
        final_profit_usd == net_profit_usd - gas_usd
    IN
    IF ~swap_a_b.ok THEN PairResult("no_swap_a_b", 0, <<"swap">>)
    ELSE IF swap_a_b.dst = -1 THEN PairResult("raise", 0, <<"swap">>)
    ELSE IF swap_a_b.dst = 0 THEN PairResult("zero_dst", 0, <<"swap">>)
    ELSE IF ~swap_b_a.ok THEN PairResult("no_swap_b_a", 0, <<"swap", "swap">>)
    ELSE IF swap_b_a.dst = -1 THEN PairResult("raise", 0, <<"swap", "swap">>)
    ELSE IF ~gas_price.ok THEN PairResult("raise", 0, <<"swap", "swap", "gas_price">>)
    ELSE IF PairSkips(final_profit_usd)
    THEN PairResult("skip", final_profit_usd, <<"swap", "swap", "gas_price">>)
    ELSE IF ~(swap_a_b.tx_ok /\ swap_b_a.tx_ok)
    THEN PairResult("raise", final_profit_usd, <<"swap", "swap", "gas_price">>)
    ELSE PairResult(CASE fail \in {"build_transaction", "eth_call"} -> "failed"
                      [] DRY_RUN # 0 -> "dry_run"
                      [] fail = "none" -> "sent"
                      [] OTHER -> "failed",
                    final_profit_usd,
                    <<"swap", "swap", "gas_price">> \o TryCalls(fail, DRY_RUN # 0))

NoPairResult == PairResult("-", 0, <<>>)

\* main(): the top of the while loop.
MainTop ==
    /\ pr_pc = "top"
    /\ pr_iter < MaxPairIters
    /\ pr_iter' = pr_iter + 1
    /\ pr_sent_iter' = 0
    /\ pr_last' = NoPairResult
    /\ IF pr_env.contract
       THEN pr_pc' = "pairs" /\ pr_idx' = 1
       ELSE pr_pc' = "sleep" /\ pr_idx' = pr_idx
    /\ UNCHANGED <<botVars, swapVars, liqVars, pr_env>>

\* main(): one pass of `for p in PAIRS: scan_pair(p[0], p[1], p[2])`.
MainScanPair ==
    /\ pr_pc = "pairs"
    /\ LET p == PAIRS[pr_idx]
           owed == p[3] * PairRawPerTenth + flash_loan_fee(p[3] * PairRawPerTenth)
       IN
       \E swap_a_b \in SwapDataReplies(DstAmountsB),
          swap_b_a \in SwapDataReplies({-1} \cup {owed + o : o \in DstAmountOffsets(p[1])}),
          gas_price \in PairGasPrices, fail \in TryFailures :
          LET r == scan_pair(p[1], p[2], p[3], swap_a_b, swap_b_a, gas_price, fail,
                             pr_env.DRY_RUN)
          IN /\ pr_last' = r
             /\ pr_sent_iter' = pr_sent_iter + (IF r.outcome = "sent" THEN 1 ELSE 0)
             /\ IF r.outcome = "raise"
                THEN pr_pc' = "crashed" /\ pr_idx' = pr_idx
                ELSE IF pr_idx = Len(PAIRS)
                THEN pr_pc' = "sleep" /\ pr_idx' = pr_idx
                ELSE pr_pc' = "pairs" /\ pr_idx' = pr_idx + 1
    /\ UNCHANGED <<botVars, swapVars, liqVars, pr_env, pr_iter>>

\* main(): time.sleep(SCAN_INTERVAL).
MainSleep ==
    /\ pr_pc = "sleep"
    /\ pr_pc' = "top"
    /\ UNCHANGED <<botVars, swapVars, liqVars, pr_env, pr_iter, pr_idx, pr_sent_iter, pr_last>>

PairInit ==
    /\ pr_env \in [DRY_RUN : {0, 1}, contract : BOOLEAN]
    /\ pr_pc = "top"
    /\ pr_iter = 0
    /\ pr_idx = 1
    /\ pr_sent_iter = 0
    /\ pr_last = NoPairResult

\* orchestrator.py of FlashLoanBot is not running.
PairIdle ==
    /\ pr_env = [DRY_RUN |-> 1, contract |-> FALSE]
    /\ pr_pc = "off"
    /\ pr_iter = 0
    /\ pr_idx = 1
    /\ pr_sent_iter = 0
    /\ pr_last = NoPairResult

----------------------------------------------------------------------------
\* src/FlashLoanBot/liquidation_monitor.py.  Units: a token amount counts 10^-4
\* token, a token price counts half dollars, a USD value counts 10^-4 dollar and a
\* health factor counts hundredths.  The code computes in floats; the amounts
\* enumerated below are those for which every product and quotient is exact.

MaxScans == 11          \* scan_borrowers() starts so many scan cycles

CachePeriod == 10             \* if scan_count % 10 == 0: checked_borrowers.clear()
LiqMinProfitUsd == 20000      \* MIN_PROFIT_USD = 2.0
LiqMinValueUsd == 500000      \* if value_usd < 50: continue
LiqOverheadUsd == 5000        \* the 0.50 of the profit formula
LiqWorstProfit == -99990000   \* best_profit = -9999
BonusPct == 5                 \* debt_usd * 0.05
LoanFeeE4 == 9                \* debt_usd * 0.0009
SwapFeeE3 == 3                \* debt_usd * 0.003
HealthyFrom == 100            \* health_factor < 1.0

\* get_token_price of liquidation_monitor.py.
liq_get_token_price(symbol) ==
    CASE symbol \in {"USDC", "USDT", "DAI"} -> 2
      [] symbol = "WMATIC" -> 1
      [] symbol = "WETH" -> 6000
      [] symbol = "WBTC" -> 80000
      [] OTHER -> 0

\* COLLATERAL_PAIRS.get(debt_symbol, []).
COLLATERAL_PAIRS(debt_symbol) ==
    CASE debt_symbol \in {"USDC", "USDT"} -> <<"WETH", "WMATIC", "WBTC">>
      [] debt_symbol \in {"WETH", "WMATIC"} -> <<"USDC", "USDT">>
      [] debt_symbol = "DAI" -> <<"USDC", "USDT", "WETH", "WMATIC">>
      [] OTHER -> <<>>

\* The Borrow events the node can report: on_behalf_of, reserve and amount.
BorrowLogs ==
    {[borrower |-> "b1", reserve |-> "USDC", amount |-> 10000000],
     [borrower |-> "b1", reserve |-> "USDC", amount |-> 400000],
     [borrower |-> "b2", reserve |-> "WETH", amount |-> 10000],
     [borrower |-> "b1", reserve |-> "WBTC", amount |-> 100]}
HealthReplies == {[ok |-> FALSE, hf |-> 0], [ok |-> TRUE, hf |-> 95], [ok |-> TRUE, hf |-> 100]}
LiqFailures == {"none", "build_transaction", "eth_call", "sign_transaction",
                "send_raw_transaction"}

\* (amount / 10**decimals) * price.
value_usd(amount, symbol) == (amount * liq_get_token_price(symbol)) \div 2

\* The loop over the logs: what it adds to borrowers_to_check.
BorrowersToCheck(logs) ==
    {l \in logs : value_usd(l.amount, l.reserve) >= LiqMinValueUsd}

\* A fee model that leaves the swap fee out.
liquidation_profit_no_swap_fee(debt_usd, coll_symbol) ==
    (debt_usd * BonusPct) \div 100 - (debt_usd * LoanFeeE4) \div 10000 - LiqOverheadUsd

\* profit = (debt_usd * 0.05) - (debt_usd * 0.0009) - (debt_usd * 0.003) - 0.50
liquidation_profit(debt_usd, coll_symbol) ==
    (debt_usd * BonusPct) \div 100 - (debt_usd * LoanFeeE4) \div 10000
        - (debt_usd * SwapFeeE3) \div 1000 - LiqOverheadUsd

\* A comparison under which a later candidate of equal profit replaces the best.
BetterOrEqualProfit(profit, best_profit) == profit >= best_profit

\* if profit > best_profit
BetterProfit(profit, best_profit) == profit > best_profit

\* for coll_symbol in collaterals, from candidate i on: best_profit and
\* best_collateral ("None" while none was taken) after the loop.
RECURSIVE TryCollaterals(_, _, _, _)
TryCollaterals(collaterals, i, debt_usd, best) ==
    IF i > Len(collaterals) THEN best
    ELSE LET profit == liquidation_profit(debt_usd, collaterals[i]) IN
         TryCollaterals(collaterals, i + 1, debt_usd,
                        IF BetterProfit(profit, best.best_profit)
                        THEN [best_profit |-> profit, best_collateral |-> collaterals[i]]
                        ELSE best)

\* execute_liquidation: how it ends, every exception of its try block being caught.
execute_liquidation(account, DRY_RUN, fail) ==
    CASE ~account -> "no_account"
      [] fail \in {"build_transaction", "eth_call"} -> "failed"
      [] DRY_RUN # 0 -> "dry_run"
      [] fail = "none" -> "sent"
      [] OTHER -> "failed"

NoVisit ==
    [borrower |-> "-", outcome |-> "-", health_factor |-> -1, debt_symbol |-> "-",
     debt_usd |-> 0, best_profit |-> 0, best_collateral |-> "None"]

\* A loop body that does not look into checked_borrowers.
CheckBorrowerNoCache(t, checked, health, fail, env) ==
    LET debt_usd == value_usd(t.amount, t.reserve)
        best == TryCollaterals(COLLATERAL_PAIRS(t.reserve), 1, debt_usd,
                               [best_profit |-> LiqWorstProfit, best_collateral |-> "None"])
        seen == [NoVisit EXCEPT !.borrower = t.borrower]
    IN
    IF ~health.ok THEN [seen EXCEPT !.outcome = "query_failed"]
    ELSE IF ~(health.hf < HealthyFrom)
    THEN [seen EXCEPT !.outcome = "healthy", !.health_factor = health.hf]
    ELSE [borrower |-> t.borrower,
          outcome |-> IF ~(best.best_profit > LiqMinProfitUsd /\ best.best_collateral # "None")
                      THEN "not_executed"
                      ELSE IF ~env.LIQUIDATION_CONTRACT THEN "scan_only"
                      ELSE execute_liquidation(env.account, env.DRY_RUN, fail),
          health_factor |-> health.hf, debt_symbol |-> t.reserve, debt_usd |-> debt_usd,
          best_profit |-> best.best_profit, best_collateral |-> best.best_collateral]

\* The body of `for borrower, debt_asset, debt_amount in borrowers_to_check` for
\* one tuple, given the node's answers.
CheckBorrower(t, checked, health, fail, env) ==
    LET debt_usd == value_usd(t.amount, t.reserve)
        best == TryCollaterals(COLLATERAL_PAIRS(t.reserve), 1, debt_usd,
                               [best_profit |-> LiqWorstProfit, best_collateral |-> "None"])
        seen == [NoVisit EXCEPT !.borrower = t.borrower]
    IN
    IF t.borrower \in checked THEN [seen EXCEPT !.outcome = "cached"]
    ELSE IF ~health.ok THEN [seen EXCEPT !.outcome = "query_failed"]
    ELSE IF ~(health.hf < HealthyFrom)
    THEN [seen EXCEPT !.outcome = "healthy", !.health_factor = health.hf]
    ELSE [borrower |-> t.borrower,
          outcome |-> IF ~(best.best_profit > LiqMinProfitUsd /\ best.best_collateral # "None")
                      THEN "not_executed"
                      ELSE IF ~env.LIQUIDATION_CONTRACT THEN "scan_only"
                      ELSE execute_liquidation(env.account, env.DRY_RUN, fail),
          health_factor |-> health.hf, debt_symbol |-> t.reserve, debt_usd |-> debt_usd,
          best_profit |-> best.best_profit, best_collateral |-> best.best_collateral]

\* The top of the while loop: scan_count += 1, block_number and get_logs, the loop
\* over the logs.  A failing read goes to the outer except branch.
LiqFetch ==
    /\ lq_pc = "top"
    /\ scan_count < MaxScans
    /\ scan_count' = scan_count + 1
    /\ lq_sent_iter' = 0
    /\ lq_last' = NoVisit
    /\ \E fetch_ok \in BOOLEAN, logs \in SUBSET BorrowLogs :
       IF fetch_ok
       THEN /\ borrowers_to_check' = BorrowersToCheck(logs)
            /\ lq_scan_failed' = FALSE
            /\ lq_pc' = "check"
       ELSE /\ borrowers_to_check' = {}
            /\ lq_scan_failed' = TRUE
            /\ lq_pc' = "sleep"
    /\ UNCHANGED <<botVars, swapVars, pairVars, lq_env, checked_borrowers>>

\* One pass of the loop over borrowers_to_check (a set: any order).
LiqCheck ==
    /\ lq_pc = "check"
    /\ \E t \in borrowers_to_check, health \in HealthReplies, fail \in LiqFailures :
       LET v == CheckBorrower(t, checked_borrowers, health, fail, lq_env) IN
       /\ lq_last' = v
       /\ borrowers_to_check' = borrowers_to_check \ {t}
       /\ checked_borrowers' = IF v.outcome \in {"cached", "query_failed"}
                               THEN checked_borrowers
                               ELSE checked_borrowers \cup {t.borrower}
       /\ lq_sent_iter' = lq_sent_iter + (IF v.outcome = "sent" THEN 1 ELSE 0)
    /\ UNCHANGED <<botVars, swapVars, pairVars, lq_env, lq_pc, scan_count, lq_scan_failed>>

\* After the loop, still inside the try block: the periodic clear.
LiqEndScan ==
    /\ lq_pc = "check"
    /\ borrowers_to_check = {}
    /\ checked_borrowers' = IF scan_count % CachePeriod = 0 THEN {} ELSE checked_borrowers
    /\ lq_pc' = "sleep"
    /\ UNCHANGED <<botVars, swapVars, pairVars, lq_env, scan_count, borrowers_to_check,
                   lq_scan_failed, lq_sent_iter, lq_last>>

\* time.sleep(SCAN_INTERVAL)
LiqSleep ==
    /\ lq_pc = "sleep"
    /\ lq_pc' = "top"
    /\ UNCHANGED <<botVars, swapVars, pairVars, lq_env, scan_count, checked_borrowers,
                   borrowers_to_check, lq_scan_failed, lq_sent_iter, lq_last>>

LiqInit ==
    /\ lq_env \in [DRY_RUN : {0, 1}, LIQUIDATION_CONTRACT : BOOLEAN, account : BOOLEAN]
    /\ lq_pc = "top"
    /\ scan_count = 0
    /\ checked_borrowers = {}
    /\ borrowers_to_check = {}
    /\ lq_scan_failed = FALSE
    /\ lq_sent_iter = 0
    /\ lq_last = NoVisit

\* liquidation_monitor.py is not running.
LiqIdle ==
    /\ lq_env = [DRY_RUN |-> 1, LIQUIDATION_CONTRACT |-> FALSE, account |-> FALSE]
    /\ lq_pc = "off"
    /\ scan_count = 0
    /\ checked_borrowers = {}
    /\ borrowers_to_check = {}
    /\ lq_scan_failed = FALSE
    /\ lq_sent_iter = 0
    /\ lq_last = NoVisit

----------------------------------------------------------------------------
\* bot.py is not running.
BotIdle ==
    /\ config = [dry_run |-> TRUE, loan_amount_usdc |-> LoanAmountUsdc,
                 min_profit_usdc |-> 12000005, max_gas_gwei |-> MaxGasGwei,
                 max_daily_attempts |-> 0]
    /\ attempts_today = 0
    /\ today = 0
    /\ attempt_day = 0
    /\ pc = "scan"
    /\ profit_qs = 0
    /\ profit_sq = 0
    /\ direction = "-"
    /\ verdict = NoVerdict
    /\ calls = <<>>
    /\ receipt_status = "-"
    /\ quotes_failed = {}
    /\ nonce = 0
    /\ sent = 0
    /\ sent_today = 0
    /\ gas_spent = 0
    /\ resets = 0
    /\ cumulative_gas_spend_usd = 0

InitSwap == SwapInit /\ BotIdle /\ PairIdle /\ LiqIdle

SwapNext ==
    \/ SwapCall
    \/ SwapSimulate
    \/ SwapProfit
    \/ SwapRequote
    \/ SwapSignSend
    \/ SwapReturn

SpecSwap == InitSwap /\ [][SwapNext]_vars

\* The other program is not running.
SwapIdle ==
    /\ env_DRY_RUN = "unset"
    /\ sw_pc = "idle"
    /\ sw_args = NoArgs
    /\ sw_local = NoLocals
    /\ sw_calls = <<>>
    /\ sw_result = "-"
    /\ sw_nonce = 0

InitBot == BotInit /\ SwapIdle /\ PairIdle /\ LiqIdle

BotNext ==
    \/ Tick
    \/ BotScan
    \/ BotSelect
    \/ BotExecute
    \/ BotSend
    \/ BotReceipt
    \/ BotCooldown
    \/ BotInterval
    \/ BotExcept

SpecBot == InitBot /\ [][BotNext]_vars

InitPair == PairInit /\ BotIdle /\ SwapIdle /\ LiqIdle

PairNext ==
    \/ MainTop
    \/ MainScanPair
    \/ MainSleep

SpecPair == InitPair /\ [][PairNext]_vars

InitLiq == LiqInit /\ BotIdle /\ SwapIdle /\ PairIdle

LiqNext ==
    \/ LiqFetch
    \/ LiqCheck
    \/ LiqEndScan
    \/ LiqSleep

SpecLiq == InitLiq /\ [][LiqNext]_vars

----------------------------------------------------------------------------
\* Claims about src/bot.py.

\* The profit should_trade was asked about in the current cycle.
ChosenProfit == IF direction = "QS" THEN profit_qs ELSE profit_sq

Evaluated == direction # "-"

MinProfitBase == usdc_to_base(config.min_profit_usdc)

Has(cs, name) == \E i \in 1..Len(cs) : cs[i] = name

\* A call of `name` in cs is always preceded by a call of `before`.
Precedes(cs, before, name) ==
    \A i \in 1..Len(cs) : cs[i] = name => \E j \in 1..(i - 1) : cs[j] = before

NothingBuilt ==
    /\ ~Has(calls, "build_transaction")
    /\ ~Has(calls, "sign_transaction")
    /\ ~Has(calls, "send_raw_transaction")

\* C2: in a cycle of FlashLoanBot.run whose chosen direction has an estimated profit
\* below min_profit_usdc (in base units), should_trade returns False and
\* execute_trade is not invoked: nothing is built, signed or sent.
C2_ProfitFloor ==
    (Evaluated /\ ChosenProfit < MinProfitBase) =>
        /\ verdict.ret = "False"
        /\ pc = "interval"
        /\ NothingBuilt

C2_Witness ==
    /\ Evaluated
    /\ ChosenProfit < MinProfitBase
    /\ ChosenProfit > 0
    /\ ~config.dry_run
    /\ verdict.network_gas.ok
    /\ pc = "interval"

\* C3: should_trade applies the profit floor, then the gas ceiling, then the quota
\* and stops at the first gate that fails: with a profit below the floor the gas
\* price is not read and the rejection is the profit floor's, also when the gas
\* price is above the ceiling; a gas price above the ceiling rejects before the
\* clock and the daily counter are consulted.
C3_GateOrder ==
    Evaluated =>
        /\ ChosenProfit < MinProfitBase =>
              /\ verdict.reason = "PROFIT_TOO_LOW"
              /\ verdict.gas_seen = -1
              /\ ~Has(calls, "gas_price")
              /\ verdict.day_seen = -1
        /\ verdict.reason = "GAS_TOO_HIGH" =>
              /\ ChosenProfit >= MinProfitBase
              /\ verdict.day_seen = -1
              /\ verdict.attempts_checked = -1
              /\ ~Has(calls, "strftime")
        /\ verdict.reason \in {"QUOTA_EXCEEDED", "NONE"} =>
              /\ ChosenProfit >= MinProfitBase
              /\ verdict.gas_seen # -1
              /\ verdict.gas_seen <= config.max_gas_gwei * GweiUnits
              /\ calls[1] = "gas_price" /\ calls[2] = "strftime"

C3_Witness ==
    /\ Evaluated
    /\ ChosenProfit < MinProfitBase
    /\ verdict.network_gas.ok
    /\ verdict.network_gas.wei > config.max_gas_gwei * GweiUnits
    /\ verdict.reason = "PROFIT_TOO_LOW"

\* C4: a network gas price strictly above max_gas_gwei makes should_trade reject
\* whatever the profit, and no transaction is sent in that cycle; a gas price equal
\* to max_gas_gwei does not fail the gas gate.
C4_GasCeiling ==
    (Evaluated /\ verdict.network_gas.ok) =>
        /\ verdict.network_gas.wei > config.max_gas_gwei * GweiUnits =>
              /\ verdict.ret = "False"
              /\ pc = "interval"
              /\ ~Has(calls, "send_raw_transaction")
        /\ verdict.network_gas.wei = config.max_gas_gwei * GweiUnits =>
              verdict.reason # "GAS_TOO_HIGH"

C4_Witness ==
    /\ Evaluated
    /\ verdict.network_gas.ok
    /\ verdict.network_gas.wei > config.max_gas_gwei * GweiUnits
    /\ verdict.network_gas.wei < (config.max_gas_gwei + 1) * GweiUnits
    /\ ChosenProfit >= MinProfitBase
    /\ verdict.reason = "GAS_TOO_HIGH"

\* C5: when attempts_today, after the day-rollover check, is equal to or above
\* max_daily_attempts, should_trade rejects, however high the profit and however
\* low the gas price, and no transaction is sent in that cycle.
C5_AttemptQuota ==
    (Evaluated /\ verdict.attempts_checked # -1) =>
        /\ verdict.attempts_checked >= config.max_daily_attempts =>
              /\ verdict.ret = "False"
              /\ verdict.reason = "QUOTA_EXCEEDED"
              /\ pc = "interval"
              /\ ~Has(calls, "send_raw_transaction")
        /\ verdict.ret = "True" =>
              verdict.attempts_checked < config.max_daily_attempts

C5_Witness ==
    /\ Evaluated
    /\ config.max_daily_attempts > 0
    /\ verdict.attempts_checked = config.max_daily_attempts
    /\ verdict.reason = "QUOTA_EXCEEDED"
    /\ ChosenProfit > MinProfitBase
    /\ verdict.gas_seen < config.max_gas_gwei * GweiUnits

\* C6 as stated: attempts_today is reset once for each day boundary the process
\* has crossed, whatever the cycles did: when should_trade returns, the number of
\* resets equals the number of boundaries crossed so far (the clock starts at day 0).
C6_ResetAtEveryBoundary ==
    Evaluated => resets = verdict.day_at_call

\* C6 amended: attempts_today is reset at most once per day boundary crossed, and
\* only by a should_trade call that passed the profit floor and the gas ceiling:
\* such a call leaves attempt_day on the date it read, every reset moves
\* attempt_day forward, and a call rejected by an earlier gate reads no date.
C6_LazyReset ==
    /\ resets <= attempt_day
    /\ attempt_day <= today
    /\ (resets = 0) <=> (attempt_day = 0)
    /\ Evaluated =>
          /\ verdict.day_seen # -1 =>
                /\ attempt_day = verdict.day_seen
                /\ verdict.day_seen = verdict.day_at_call
          /\ verdict.day_seen = -1 =>
                verdict.reason \in {"PROFIT_TOO_LOW", "GAS_TOO_HIGH", "RPC_ERROR"}

C6_Witness ==
    /\ Evaluated
    /\ today >= 1
    /\ resets = 1
    /\ attempt_day = today
    /\ sent >= 1
    /\ attempts_today = 0
    /\ verdict.day_seen = today

\* C7: the tracker's cumulative gas spend never decreases and has grown by the gas
\* cost of every submitted transaction whose receipt arrived, reverted ones included.
C7_GasSpendRecorded ==
    receipt_status \in {"success", "reverted"} => cumulative_gas_spend_usd >= gas_spent

\* C8: a transaction is submitted only while the cumulative gas spend is below the
\* configured ceiling: once the ceiling is reached no further transaction goes out.
C8_BudgetGate ==
    pc = "receipt" => gas_spent < BudgetUsd

\* C1: in every execution path a transaction reaches send_raw_transaction only
\* after an eth_call simulation of it, made for the same opportunity, succeeded:
\* execute_trade of bot.py within its cycle, safe_execute_swap_pair within its call.
C1_SimulateBeforeSend ==
    /\ Precedes(calls, "eth_call", "send_raw_transaction")
    /\ Precedes(sw_calls, "eth_call", "send_raw_transaction")
    /\ Has(sw_calls, "send_raw_transaction") => sw_local.sim_ok

\* C11: in dry-run mode an accepted opportunity is built and simulated (eth_call)
\* before the engine stops, nothing is broadcast and attempts_today does not move:
\* execute_trade of bot.py when it returns to run(), safe_execute_swap_pair when
\* it returns the signed transaction instead of sending it.
C11_DryRunSimulates ==
    /\ (config.dry_run /\ pc = "cooldown") =>
          /\ Has(calls, "build_transaction")
          /\ Has(calls, "eth_call")
          /\ ~Has(calls, "send_raw_transaction")
          /\ attempts_today = verdict.attempts_checked
    /\ sw_result = "signed_hex" =>
          /\ Has(sw_calls, "eth_call")
          /\ ~Has(sw_calls, "send_raw_transaction")

\* C13: a cycle of FlashLoanBot.run in which a transaction was broadcast (the
\* receipt wait ended with success, with a revert or by raising) is left for the
\* next cycle only after time.sleep(cooldown_seconds).
C13_CooldownAfterBroadcast ==
    [][(receipt_status # "-" /\ pc' = "scan") =>
          Has(calls, "sleep(cooldown_seconds)")]_vars

\* C15: every transaction accepted by send_raw_transaction adds exactly 1 to
\* attempts_today, at the broadcast and before the receipt is awaited; the receipt
\* (success, revert or a failing wait) changes neither attempts_today nor
\* attempt_day, and a failure of the nonce or gas price read, of building,
\* signing or broadcasting leaves both unchanged.
C15_AttemptCounted ==
    [][/\ sent' # sent =>
             /\ sent' = sent + 1
             /\ attempts_today' = attempts_today + 1
             /\ attempt_day' = attempt_day
             /\ pc = "send" /\ pc' = "receipt"
       /\ pc = "receipt" => UNCHANGED <<attempts_today, attempt_day>>
       /\ (pc \in {"execute", "send"} /\ pc' = "except") =>
             UNCHANGED <<attempts_today, attempt_day>>
       /\ (pc \in {"execute", "send"} /\ attempts_today' # attempts_today) =>
             sent' = sent + 1]_vars

C15_Witness ==
    /\ receipt_status = "raise"
    /\ pc = "except"
    /\ sent = 1
    /\ attempts_today = 1
    /\ verdict.attempts_checked = 0

\* C16 as stated: no call of should_trade changes attempts_today or attempt_day.
C16_ReadOnlyEvaluator ==
    [][pc = "select" => UNCHANGED <<attempts_today, attempt_day>>]_vars

\* C16 amended: a call of should_trade rejected by the profit floor or the gas
\* ceiling (or failing to read the gas price) leaves attempts_today and attempt_day
\* unchanged; a call that reaches the quota gate changes them only when the date
\* differs from attempt_day, and then sets attempt_day to the date and
\* attempts_today to 0.
C16_OnlyRolloverMutates ==
    [][(pc = "select" /\ pc' # "select") =>
          IF /\ verdict'.reason \in {"QUOTA_EXCEEDED", "NONE"}
             /\ today # attempt_day
          THEN attempt_day' = today /\ attempts_today' = 0
          ELSE UNCHANGED <<attempts_today, attempt_day>>]_vars

C16_Witness ==
    /\ pc = "execute"
    /\ verdict.ret = "True"
    /\ resets = 1
    /\ sent = 1
    /\ attempts_today = 0
    /\ attempt_day = 1

\* C17: the direction with the larger estimated profit is the one evaluated
\* (QuickSwap first on a tie), and when the estimated profit is zero or negative in
\* both directions execute_trade is not called, whatever the configuration.
C17_NoSpreadNoTrade ==
    /\ Evaluated => (direction = "QS" <=> profit_qs >= profit_sq)
    /\ (Evaluated /\ profit_qs <= 0 /\ profit_sq <= 0) =>
          /\ verdict.ret # "True"
          /\ pc \notin {"execute", "send", "receipt", "cooldown"}
          /\ ~Has(calls, "send_raw_transaction")

\* C22: an opportunity whose estimated net profit equals the configured minimum
\* is rejected: by should_trade with the profit floor as the reason, by the
\* profit guard of safe_execute_swap_pair, and by the liquidation scan.
C22_FloorIsExclusive ==
    /\ (Evaluated /\ ChosenProfit = MinProfitBase) =>
          /\ verdict.ret = "False"
          /\ verdict.reason = "PROFIT_TOO_LOW"
    /\ (Has(sw_calls, "gas_price") /\ sw_local.net_minus_gas = MIN_PROFIT_USD) =>
          ~sw_local.guard_passed
    /\ (lq_last.health_factor # -1 /\ lq_last.best_profit = LiqMinProfitUsd) =>
          lq_last.outcome = "not_executed"

\* C23: a should_trade call rejected by the quota leaves run() at its ordinary
\* sleep, not in the except branch, and a call that passes the profit floor and
\* the gas ceiling on a date other than attempt_day returns True, whatever
\* attempts_today was (for max_daily_attempts >= 1).
C23_QuotaPausesUntilNextDay ==
    [][(pc = "select" /\ pc' # "select") =>
          /\ verdict'.reason = "QUOTA_EXCEEDED" => pc' = "interval"
          /\ (/\ verdict'.day_seen # -1
              /\ today # attempt_day
              /\ config.max_daily_attempts >= 1) =>
                /\ verdict'.ret = "True"
                /\ pc' = "execute"]_vars

C23_Witness ==
    /\ pc = "execute"
    /\ verdict.ret = "True"
    /\ today = 1
    /\ resets = 1
    /\ config.max_daily_attempts = 2
    /\ sent = 2
    /\ sent_today = 0

\* C24: a router call that raises does not end the cycle (run() goes on to pick a
\* direction), and the direction whose quote failed is never executed: when it is
\* the one evaluated, should_trade rejects it at the profit floor and nothing is
\* built or sent.
C24_FailedQuoteNotTraded ==
    /\ (quotes_failed # {} /\ ~Evaluated) => pc = "select"
    /\ (Evaluated /\ direction \in quotes_failed) =>
          /\ ChosenProfit < 0
          /\ verdict.ret = "False"
          /\ verdict.reason = "PROFIT_TOO_LOW"
          /\ pc = "interval"
          /\ NothingBuilt

C24_Witness ==
    /\ quotes_failed = {"QS"}
    /\ direction = "SQ"
    /\ config.min_profit_usdc = 0
    /\ ~config.dry_run
    /\ pc = "receipt"

\* C26: attempts_today stays within 0..max_daily_attempts, and it changes only
\* by +1 at a broadcast accepted in execute_trade or to 0 at a day rollover that
\* should_trade detected.
C26_AttemptsWithinQuota ==
    /\ [](attempts_today >= 0 /\ attempts_today <= config.max_daily_attempts)
    /\ [][attempts_today' # attempts_today =>
             \/ /\ pc = "send" /\ pc' = "receipt"
                /\ attempts_today' = attempts_today + 1
                /\ sent' = sent + 1
             \/ /\ pc = "select"
                /\ today # attempt_day
                /\ attempt_day' = today
                /\ attempts_today' = 0]_vars

C26_Witness ==
    /\ pc = "receipt"
    /\ config.max_daily_attempts = 2
    /\ attempts_today = 2
    /\ sent_today = 2
    /\ today = 0

\* C27: on no calendar day does FlashLoanBot broadcast more transactions than
\* max_daily_attempts.
C27_DailyBroadcastCap ==
    sent_today <= config.max_daily_attempts

----------------------------------------------------------------------------
\* Claims about src/orchestrator.py.

Abs(x) == IF x < 0 THEN -x ELSE x

RequoteDiff == Abs(sw_local.requote.value - sw_local.expected_out_raw)

NothingSigned ==
    /\ ~Has(sw_calls, "sign_transaction")
    /\ ~Has(sw_calls, "send_raw_transaction")

\* C9: once the opportunity passed the simulation and the profit guard, the quote is
\* fetched again; a new output amount more than 1% above or below the detection-time
\* amount makes safe_execute_swap_pair return False with nothing signed or sent; a
\* change of exactly 1% or less goes on to signing.
C9_FreshnessRecheck ==
    sw_local.requote.ok =>
        /\ sw_local.sim_ok /\ sw_local.guard_passed
        /\ 100 * RequoteDiff > sw_local.expected_out_raw =>
              /\ sw_pc = "returned"
              /\ sw_result = "False"
              /\ NothingSigned
        /\ 100 * RequoteDiff <= sw_local.expected_out_raw =>
              \/ sw_pc = "fresh"
              \/ sw_pc = "returned" /\ Has(sw_calls, "sign_transaction")

C9_Witness ==
    /\ sw_local.requote.ok
    /\ sw_local.requote.value > sw_local.expected_out_raw
    /\ 100 * RequoteDiff > sw_local.expected_out_raw
    /\ 100 * (RequoteDiff - 1) = sw_local.expected_out_raw
    /\ ~sw_args.dry_run
    /\ env_DRY_RUN = "0"
    /\ sw_result = "False"

\* C10: when gas estimation or the eth_call simulation fails, safe_execute_swap_pair
\* returns False, signs and broadcasts nothing, and the account's transaction count
\* is what it was when the transaction was built (no nonce is consumed).
C10_SimulationFailureAborts ==
    sw_local.sim_failure # "-" =>
        /\ sw_pc = "returned"
        /\ sw_result = "False"
        /\ NothingSigned
        /\ sw_nonce = sw_local.tx_nonce
        /\ sw_local.sim_failure = "estimate_gas" => ~Has(sw_calls, "eth_call")
        /\ ~Has(sw_calls, "gas_price")

C10_Witness ==
    /\ sw_local.sim_failure = "eth_call"
    /\ sw_result = "False"
    /\ ~sw_args.dry_run
    /\ env_DRY_RUN = "0"
    /\ sw_local.expected_out_raw = 30000000
    /\ sw_nonce = 1

\* The net profit of the quoted opportunity before gas (step 7).
SwapNetProfit ==
    compute_net_profit_usd(sw_local.amount_raw, sw_local.expected_out_raw,
                           sw_args.from_token_sym, sw_args.to_token_sym, MaticUsdDimes, 0)

\* C21: for an opportunity whose net profit is below MIN_PROFIT_USD
\* safe_execute_swap_pair performs no execution step: no gas estimation, no
\* eth_call, no signing and no broadcast.
C21_NoExecutionBelowFloor ==
    (/\ Has(sw_calls, "quote")
     /\ SwapNetProfit.ok
     /\ SwapNetProfit.value < MIN_PROFIT_USD) =>
        /\ ~Has(sw_calls, "estimate_gas")
        /\ ~Has(sw_calls, "eth_call")
        /\ NothingSigned

\* C25: safe_execute_swap_pair signs and broadcasts only after the freshness
\* re-quote succeeded and was within 1% of the detection-time quote.
C25_NoSendWithoutRequote ==
    Has(sw_calls, "sign_transaction") =>
        /\ sw_local.requote.ok
        /\ 100 * RequoteDiff <= sw_local.expected_out_raw

\* C28: a broadcast is attempted only when the dry_run argument is false and the
\* DRY_RUN environment variable is set to something other than "1"; in every
\* other combination the call that reaches signing returns the signed
\* transaction and sends nothing.
C28_LiveNeedsBothSwitches ==
    /\ Has(sw_calls, "send_raw_transaction") =>
          /\ ~sw_args.dry_run
          /\ env_DRY_RUN \notin {"unset", "1"}
    /\ (/\ sw_pc = "returned"
        /\ Has(sw_calls, "sign_transaction")
        /\ (sw_args.dry_run \/ env_DRY_RUN \in {"unset", "1"})) =>
          /\ sw_result = "signed_hex"
          /\ ~Has(sw_calls, "send_raw_transaction")
          /\ sw_nonce = sw_local.tx_nonce
    /\ (/\ sw_pc = "returned"
        /\ Has(sw_calls, "sign_transaction")
        /\ ~sw_args.dry_run /\ env_DRY_RUN \notin {"unset", "1"}) =>
          Has(sw_calls, "send_raw_transaction")

C28_Witness ==
    /\ sw_result = "True"
    /\ ~sw_args.dry_run
    /\ env_DRY_RUN = "true"
    /\ sw_nonce = 1

----------------------------------------------------------------------------
\* Claims about the scan loops of src/FlashLoanBot.

\* C12: no scan cycle broadcasts more than one transaction: one iteration of
\* FlashLoanBot.run, one iteration of main() over all PAIRS, one scan cycle of
\* scan_borrowers over all borrowers.
C12_OneSendPerCycle ==
    /\ \A i, j \in 1..Len(calls) :
          (calls[i] = "send_raw_transaction" /\ calls[j] = "send_raw_transaction") => i = j
    /\ pr_sent_iter <= 1
    /\ lq_sent_iter <= 1

\* C14: no failure inside a scan cycle ends the process: run() of bot.py, main()
\* and scan_borrowers() are never left by an exception.
C14_NeverTerminates ==
    /\ pc \in {"scan", "select", "execute", "send", "receipt", "cooldown", "interval",
               "except"}
    /\ pr_pc # "crashed"
    /\ lq_pc # "crashed"

\* The borrower of the scenario: health factor 0.95, a debt of $1,000 in USDC.
ScenarioBorrower ==
    /\ lq_last.health_factor = 95
    /\ lq_last.debt_symbol = "USDC"
    /\ lq_last.debt_usd = 10000000

\* C18 as stated: for the scenario borrower the best candidate's estimated profit
\* is $46.60 to the cent.
C18_ProfitAsStated ==
    ScenarioBorrower => Abs(lq_last.best_profit - 466000) < 50

\* C18 amended: for the scenario borrower the fee model gives $45.60, which is
\* above MIN_PROFIT_USD = 2, and execute_liquidation is called when a liquidation
\* contract is configured (otherwise the opportunity is only reported).
C18_ScenarioProfit ==
    ScenarioBorrower =>
        /\ lq_last.best_profit = 456000
        /\ lq_last.best_profit > LiqMinProfitUsd
        /\ lq_env.LIQUIDATION_CONTRACT =>
              lq_last.outcome \in {"no_account", "failed", "dry_run", "sent"}
        /\ ~lq_env.LIQUIDATION_CONTRACT => lq_last.outcome = "scan_only"

C18_Witness ==
    /\ ScenarioBorrower
    /\ lq_env.LIQUIDATION_CONTRACT
    /\ lq_last.outcome = "sent"
    /\ lq_last.best_profit = 456000

\* C19: for a borrower with a health factor below 1.0 the chosen collateral is a
\* candidate of the debt asset's list with the highest estimated profit, the
\* earliest of the list among those of equal profit; an empty list chooses none
\* and execute_liquidation is not called.
C19_CollateralSelection ==
    (lq_last.health_factor # -1 /\ lq_last.health_factor < HealthyFrom) =>
        LET c == COLLATERAL_PAIRS(lq_last.debt_symbol) IN
        IF Len(c) = 0
        THEN lq_last.best_collateral = "None" /\ lq_last.outcome = "not_executed"
        ELSE \E k \in 1..Len(c) :
                /\ c[k] = lq_last.best_collateral
                /\ lq_last.best_profit = liquidation_profit(lq_last.debt_usd, c[k])
                /\ \A j \in 1..Len(c) :
                      liquidation_profit(lq_last.debt_usd, c[j]) <= lq_last.best_profit
                /\ \A j \in 1..(k - 1) :
                      liquidation_profit(lq_last.debt_usd, c[j]) < lq_last.best_profit

C19_Witness ==
    /\ lq_last.health_factor = 95
    /\ lq_last.debt_symbol = "WETH"
    /\ lq_last.best_collateral = "USDC"
    /\ lq_last.outcome = "sent"
    /\ checked_borrowers = {"b1", "b2"}

\* C20: at the end of every scan cycle whose number is a multiple of 10, cycles
\* whose log or block number fetch failed included, checked_borrowers is empty.
C20_CacheClearedEveryTenth ==
    (lq_pc = "sleep" /\ scan_count % CachePeriod = 0) => checked_borrowers = {}

\* The outcomes of a visit whose health query completed without raising.
QueryCompleted ==
    {"healthy", "not_executed", "scan_only", "no_account", "failed", "dry_run", "sent"}

\* C29: a visit of a borrower held in checked_borrowers issues no health query and
\* no execute_liquidation; a visit whose health query completed puts the borrower
\* into checked_borrowers, one whose query raised does not; and a borrower leaves
\* checked_borrowers only when the whole set is cleared at a scan cycle that is a
\* multiple of 10.
C29_CheckedBorrowerSkipped ==
    [][/\ (lq_pc = "check" /\ borrowers_to_check' # borrowers_to_check) =>
             /\ lq_last'.borrower \in checked_borrowers =>
                   /\ lq_last'.outcome = "cached"
                   /\ lq_last'.health_factor = -1
                   /\ lq_sent_iter' = lq_sent_iter
                   /\ checked_borrowers' = checked_borrowers
             /\ lq_last'.borrower \notin checked_borrowers =>
                   /\ lq_last'.outcome \in QueryCompleted \cup {"query_failed"}
                   /\ lq_last'.outcome \in QueryCompleted =>
                         checked_borrowers' = checked_borrowers \cup {lq_last'.borrower}
                   /\ lq_last'.outcome = "query_failed" =>
                         checked_borrowers' = checked_borrowers
       /\ ~(checked_borrowers \subseteq checked_borrowers') =>
             /\ checked_borrowers' = {}
             /\ scan_count % CachePeriod = 0]_vars

C29_Witness ==
    /\ scan_count = 1
    /\ lq_last.borrower = "b1"
    /\ lq_last.outcome = "cached"
    /\ lq_sent_iter = 1
    /\ checked_borrowers = {"b1"}

====
